---- MODULE Spec2Model ----
(***************************************************************************)
(* gitsign (src/main.rs): load the user's SSH key, then create a signed    *)
(* initial commit in ./tmp-git2 through git2 (libgit2) and in ./tmp-gix    *)
(* through gix.                                                            *)
(*                                                                         *)
(* Bytes are modelled as sequences of lines, a line as a sequence of       *)
(* tokens; an object id is the (collision-free) hash of the object.        *)
(***************************************************************************)
EXTENDS Naturals, Sequences, FiniteSets, TLC

\* Bounds of the model.
MaxAttempts == 3
MaxCalls == 2

VARIABLES
    home,       \* dirs::home_dir() is Some
    files,      \* ~/.ssh: key file name -> "absent" | "garbage" | "plain" | "encrypted"
    cfg,        \* git config init.defaultBranch: "unset" | "main" | "master"
    start,      \* ./tmp-git2 and ./tmp-gix as they were when the process started
    pc,         \* position in main / load_key / decrypt / with_git2 / with_gix
    err,        \* the error main returned, "none" while running
    key,        \* the PrivateKey in hand (NoKey before load_key found one)
    password,   \* the password the last prompt returned
    tried,      \* the passwords handed to key.decrypt so far, in order
    git2,       \* the directory ./tmp-git2
    gix,        \* the directory ./tmp-gix
    author,     \* local `author` of the running backend
    content,    \* with_git2: `content`; with_gix: `msg` (the bytes handed to sign)
    sig,        \* local `sig`
    commit,     \* with_gix: the `commit` struct
    commit_id,  \* local `commit` (git2, an Oid) / `commit_id` (gix)
    out,        \* stdout
    errout,     \* stderr
    calls       \* results of repeated reference operations (SpecCalls only)

vars == <<home, files, cfg, start, pc, err, key, password, tried, git2, gix,
          author, content, sig, commit, commit_id, out, errout, calls>>

----------------------------------------------------------------------------
\* KeyStore: load_key and decrypt.

KeyFileNames == <<"id_ed25519", "id_ecdsa", "id_rsa">>

FileStates == {"absent", "garbage", "plain", "encrypted"}

Passwords == {"correct", "wrong"}

NoKey == [alg |-> "none", encrypted |-> FALSE]

AlgOf(name) ==
    CASE name = "id_ed25519" -> "ed25519"
      [] name = "id_ecdsa" -> "ecdsa"
      [] name = "id_rsa" -> "rsa"

\* fs::read(ssh_dir.join(keyfile)): Ok for a file that can be read.
Readable(fs, name) == fs[name] # "absent"

\* The first file that can be read and holds a key that parses.
RECURSIVE FirstParseable(_, _)
FirstParseable(fs, i) ==
    IF i > Len(KeyFileNames) THEN 0
    ELSE IF fs[KeyFileNames[i]] \in {"plain", "encrypted"} THEN i
    ELSE FirstParseable(fs, i + 1)

\* [..].into_iter().flat_map(fs::read).next(): the index of the first file
\* that can be read, 0 for None.
RECURSIVE FirstReadable(_, _)
FirstReadable(fs, i) ==
    IF i > Len(KeyFileNames) THEN 0
    ELSE IF Readable(fs, KeyFileNames[i]) THEN i
    ELSE FirstReadable(fs, i + 1)

\* PrivateKey::from_openssh on the bytes of file `name`.
FromOpenssh(fs, name) ==
    IF fs[name] = "garbage"
    THEN [ok |-> FALSE, key |-> NoKey]
    ELSE [ok |-> TRUE,
          key |-> [alg |-> AlgOf(name), encrypted |-> fs[name] = "encrypted"]]

\* load_key up to the is_encrypted test: the error, or the parsed key.
LoadKeyResult(h, fs) ==
    LET i == FirstReadable(fs, 1) IN
    IF ~h THEN [err |-> "HomeDirNotFound", key |-> NoKey]
    ELSE IF i = 0 THEN [err |-> "KeyNotFound", key |-> NoKey]
    ELSE LET r == FromOpenssh(fs, KeyFileNames[i]) IN
         IF r.ok THEN [err |-> "none", key |-> r.key]
         ELSE [err |-> "KeyParseError", key |-> NoKey]

\* A decrypt that takes any password.
DecryptAnyPassword(k, pw) ==
    [ok |-> TRUE, key |-> [k EXCEPT !.encrypted = FALSE]]

\* key.decrypt(&password).
Decrypt(k, pw) ==
    IF pw = "correct"
    THEN [ok |-> TRUE, key |-> [k EXCEPT !.encrypted = FALSE]]
    ELSE [ok |-> FALSE, key |-> k]

----------------------------------------------------------------------------
\* SignatureEngine: key.sign("git", HashAlg::Sha256, payload).to_pem(LF), trim.

PemBegin == <<"-----BEGIN SSH SIGNATURE-----">>
PemEnd == <<"-----END SSH SIGNATURE-----">>

\* The signature blob: determined by the key, the namespace, the hash
\* algorithm and the signed bytes, and by nothing else.
Sign(k, namespace, hashalg, payload) ==
    <<"sig", k.alg, namespace, hashalg, payload>>

\* key.sign is refused for a key that is still encrypted.
CanSign(k) == k.alg # "none" /\ ~k.encrypted

\* to_pem(LineEnding::LF): the armored text, ending in a line feed (so its
\* last line is empty).
ToPem(s) == <<PemBegin, s, PemEnd, <<>>>>

RECURSIVE TrimEnd(_)
TrimEnd(text) ==
    IF text # <<>> /\ text[Len(text)] = <<>>
    THEN TrimEnd(SubSeq(text, 1, Len(text) - 1))
    ELSE text

RECURSIVE TrimStart(_)
TrimStart(text) ==
    IF text # <<>> /\ text[1] = <<>> THEN TrimStart(Tail(text)) ELSE text

\* str::trim.
Trim(text) == TrimStart(TrimEnd(text))

----------------------------------------------------------------------------
\* Objects and the commit encoding.

Hash(obj) == <<"oid", obj>>

NoId == <<>>

\* Tree::empty() / the tree written from an empty index.
EmptyTree == [kind |-> "tree", data |-> <<>>]

Bob == [name |-> "Bob", email |-> "bob@example.com"]

Times == {"t0", "t1"}

Identity(who, t) == [name |-> who.name, email |-> who.email, time |-> t]

IdentityTokens(a) == <<a.name, a.email, a.time>>

\* A header value of several lines: every line after the first is a
\* continuation line, which starts with one space.
Fold(name, value) ==
    [i \in 1..Len(value) |->
        IF i = 1 THEN <<name>> \o value[1] ELSE <<" ">> \o value[i]]

RECURSIVE FoldAll(_)
FoldAll(headers) ==
    IF headers = <<>> THEN <<>>
    ELSE Fold(headers[1][1], headers[1][2]) \o FoldAll(Tail(headers))

\* gix Commit::write_to.
WriteTo(c) ==
    <<<<"tree", c.tree>>>>
    \o [i \in 1..Len(c.parents) |-> <<"parent", c.parents[i]>>]
    \o <<<<"author">> \o IdentityTokens(c.author),
         <<"committer">> \o IdentityTokens(c.committer)>>
    \o [i \in 1..Len(c.encoding) |-> <<"encoding", c.encoding[i]>>]
    \o FoldAll(c.extra_headers)
    \o <<<<>>, <<c.message>>>>

\* git2 Repository::commit_create_buffer(author, committer, message, tree, parents).
CommitCreateBuffer(a, c, message, tree, parents) ==
    <<<<"tree", tree>>>>
    \o [i \in 1..Len(parents) |-> <<"parent", parents[i]>>]
    \o <<<<"author">> \o IdentityTokens(a),
         <<"committer">> \o IdentityTokens(c)>>
    \o <<<<>>, <<message>>>>

\* The index of the first empty line of `lines`, Len + 1 when there is none.
RECURSIVE HeaderEnd(_, _)
HeaderEnd(lines, i) ==
    IF i > Len(lines) \/ lines[i] = <<>> THEN i ELSE HeaderEnd(lines, i + 1)

\* git2 Repository::commit_signed(content, signature, None): the signature
\* goes in as the gpgsig header, after the headers of `content` and before
\* the empty line and the message.
CommitSignedBuffer(buf, signature) ==
    LET e == HeaderEnd(buf, 1) IN
    SubSeq(buf, 1, e - 1) \o Fold("gpgsig", signature) \o SubSeq(buf, e, Len(buf))

\* The gix commit of with_gix before it is signed.
Draft(a, tree) ==
    [message |-> "Initial commit",
     tree |-> tree,
     author |-> a,
     committer |-> a,
     encoding |-> <<>>,
     parents |-> <<>>,
     extra_headers |-> <<>>]

NoCommit == Draft(Identity(Bob, "t0"), NoId)

\* commit.extra_headers.push(("gpgsig", sig.trim())).
PushSignature(c, signature) ==
    [c EXCEPT !.extra_headers = Append(@, <<"gpgsig", signature>>)]

----------------------------------------------------------------------------
\* Reading a commit back.

\* The header lines of `lines` from line i on, unfolded: <<name, value>>
\* pairs, a continuation line appended to the value of the header before it.
RECURSIVE Unfold(_, _, _)
Unfold(lines, i, acc) ==
    IF i > Len(lines) THEN acc
    ELSE IF lines[i][1] = " " /\ acc # <<>>
    THEN Unfold(lines, i + 1,
                [acc EXCEPT ![Len(acc)][2] = Append(@, Tail(lines[i]))])
    ELSE Unfold(lines, i + 1, Append(acc, <<lines[i][1], <<Tail(lines[i])>>>>))

HeaderNamed(hs, name) == SelectSeq(hs, LAMBDA h : h[1] = name)

HeaderNotNamed(hs, name) == SelectSeq(hs, LAMBDA h : h[1] # name)

Known == {"tree", "parent", "author", "committer", "encoding"}

RECURSIVE Extra(_)
Extra(hs) ==
    IF hs = <<>> THEN <<>>
    ELSE IF hs[1][1] \in Known THEN Extra(Tail(hs))
    ELSE <<hs[1]>> \o Extra(Tail(hs))

ToIdentity(v) == [name |-> v[1][1], email |-> v[1][2], time |-> v[1][3]]

\* The commit record that `lines` encode.
Decode(lines) ==
    LET e == HeaderEnd(lines, 1)
        hs == Unfold(SubSeq(lines, 1, e - 1), 1, <<>>)
        ps == HeaderNamed(hs, "parent")
        en == HeaderNamed(hs, "encoding")
    IN [message |-> lines[e + 1][1],
        tree |-> HeaderNamed(hs, "tree")[1][2][1][1],
        author |-> ToIdentity(HeaderNamed(hs, "author")[1][2]),
        committer |-> ToIdentity(HeaderNamed(hs, "committer")[1][2]),
        encoding |-> [i \in 1..Len(en) |-> en[i][2][1][1]],
        parents |-> [i \in 1..Len(ps) |-> ps[i][2][1][1]],
        extra_headers |-> Extra(hs)]

\* The commit without its gpgsig header.
StripSig(c) == [c EXCEPT !.extra_headers = HeaderNotNamed(@, "gpgsig")]

\* The signature blob inside the gpgsig header of commit record c.
EmbeddedSig(c) == HeaderNamed(c.extra_headers, "gpgsig")[1][2][2]

\* Verification of signature blob s over `payload` with the key's public half.
Verifies(s, k, payload) ==
    s = <<"sig", k.alg, "git", "sha256", payload>>

----------------------------------------------------------------------------
\* Directories and repositories.

RefNames == {"main", "master"}

NoRefs == [r \in RefNames |-> NoId]

\* A directory that does not exist.
NoDir == [dir |-> FALSE, git |-> FALSE, head |-> "main", objects |-> {},
          refs |-> NoRefs, reflog |-> <<>>]

\* What is left of a repository when its removal stops part-way: the
\* directory and its .git, with some of the objects and references gone.
Remnants(d) ==
    {[d EXCEPT !.objects = os,
               !.refs = [r \in RefNames |-> IF r \in keep THEN d.refs[r] ELSE NoId],
               !.reflog = lg] :
        os \in SUBSET d.objects, keep \in SUBSET RefNames, lg \in {d.reflog, <<>>}}

\* fs::remove_dir_all(&dir): the directory afterwards. The removal goes
\* through (nothing is left), or fails: at once (a directory that does not
\* exist, or one left as it was) or part-way.
RemoveDirAll(d) ==
    {NoDir} \cup (IF d.git THEN Remnants(d) ELSE {d})

\* fs::create_dir_all(&dir).
CreateDirAll(d) == [d EXCEPT !.dir = TRUE]

\* The branch HEAD names in a repository libgit2 initialises.
Git2InitialBranch(c) == IF c = "unset" THEN "master" ELSE c

\* The branch HEAD names in a repository gix initialises.
GixInitialBranch(c) == IF c = "unset" THEN "main" ELSE c

FreshRepo(d, branch) ==
    [d EXCEPT !.git = TRUE, !.head = branch, !.objects = {}, !.refs = NoRefs,
              !.reflog = <<>>]

\* git2 Repository::init(&dir): a repository already there is opened again.
RepositoryInit(d, c) ==
    IF d.git THEN d ELSE FreshRepo(d, Git2InitialBranch(c))

\* An init that opens a repository already there, as libgit2's does.
GixInitReopens(d, c) ==
    IF d.git THEN [ok |-> TRUE, dir |-> d]
    ELSE [ok |-> TRUE, dir |-> FreshRepo(d, GixInitialBranch(c))]

\* gix::init(dir): refuses a directory that holds a .git already.
GixInit(d, c) ==
    IF d.git THEN [ok |-> FALSE, dir |-> d]
    ELSE [ok |-> TRUE, dir |-> FreshRepo(d, GixInitialBranch(c))]

\* Writing an object: content-addressed, so writing the same bytes again
\* changes nothing.
WriteObject(d, obj) == [d EXCEPT !.objects = @ \cup {obj}]

CommitObject(bytes) == [kind |-> "commit", data |-> bytes]

\* Branch with the force flag dropped: an existing branch is never replaced.
BranchNeverReplaces(d, name, target, force) ==
    IF d.refs[name] # NoId
    THEN [ok |-> FALSE, dir |-> d]
    ELSE [ok |-> TRUE, dir |-> [d EXCEPT !.refs[name] = target]]

\* git2 Repository::branch(name, &commit, force), libgit2's
\* git_branch_create: a branch of that name is replaced only with force, and
\* in a repository with a working tree never when it is the branch HEAD
\* names ("cannot force update branch ... as it is the current HEAD of the
\* repository").
Branch(d, name, target, force) ==
    IF d.refs[name] # NoId /\ (~force \/ d.head = name)
    THEN [ok |-> FALSE, dir |-> d]
    ELSE [ok |-> TRUE, dir |-> [d EXCEPT !.refs[name] = target]]

\* EditReference with PreviousValue::Any in place of MustNotExist.
EditReferenceAny(d, new, message) ==
    [ok |-> TRUE,
     dir |-> [d EXCEPT !.refs[d.head] = new,
                       !.reflog = Append(@, <<d.head, new, message>>)]]

\* gix Repository::edit_reference(RefEdit { Change::Update { expected:
\* MustNotExist, new }, name: "HEAD", deref: true }): HEAD is symbolic, so
\* the edit is applied to the branch it names; the reflog gets the message.
EditReference(d, new, message) ==
    IF d.refs[d.head] # NoId
    THEN [ok |-> FALSE, dir |-> d]
    ELSE [ok |-> TRUE,
          dir |-> [d EXCEPT !.refs[d.head] = new,
                            !.reflog = Append(@, <<d.head, new, message>>)]]

\* log::message("commit", message, parents).
LogMessage(action, message, parents) ==
    <<action, IF parents = 0 THEN "(initial)" ELSE "", message>>

\* What HEAD resolves to.
HeadTarget(d) == d.refs[d.head]

----------------------------------------------------------------------------
\* The commits of the two backends, and what an earlier run of the program
\* leaves in a directory.

\* The buffer written as it is, the signature left out.
Git2UnsignedCommit(buf, signature) == CommitObject(buf)

\* The commit object with_git2 writes, lines 42-43.
Git2SignedCommit(buf, signature) ==
    CommitObject(CommitSignedBuffer(buf, Trim(signature)))

\* Signing the commit message in place of the encoded commit.
GixPayloadMessageOnly(c) == <<<<c.message>>>>

\* The bytes with_gix hands to the signer, lines 90-91.
GixPayload(c) == WriteTo(c)

\* The commit object with_gix writes, line 101.
GixSignedCommit(c) == CommitObject(WriteTo(c))

Keys == {[alg |-> AlgOf(KeyFileNames[i]), encrypted |-> FALSE] :
            i \in 1..Len(KeyFileNames)}

\* The commit with_git2 writes with key k at time t.
Git2CommitOf(k, t) ==
    LET a == Identity(Bob, t)
        buf == CommitCreateBuffer(a, a, "Initial commit", Hash(EmptyTree), <<>>)
    IN Git2SignedCommit(buf, ToPem(Sign(k, "git", "sha256", buf)))

\* The commit with_gix writes with key k at time t.
GixCommitOf(k, t) ==
    LET c == Draft(Identity(Bob, t), Hash(EmptyTree))
    IN GixSignedCommit(PushSignature(c,
           Trim(ToPem(Sign(k, "git", "sha256", GixPayload(c))))))

OldKey == [alg |-> "ed25519", encrypted |-> FALSE]

OldAuthor == Identity(Bob, "t0")

OldGit2Commit == Git2CommitOf(OldKey, "t0")

OldGixCommit == GixCommitOf(OldKey, "t0")

OldGit2Dir(c) ==
    Branch(WriteObject(WriteObject(RepositoryInit(CreateDirAll(NoDir), c),
                                   EmptyTree), OldGit2Commit),
           "main", Hash(OldGit2Commit), TRUE).dir

OldGixDir(c) ==
    EditReference(WriteObject(WriteObject(GixInit(CreateDirAll(NoDir), c).dir,
                                          EmptyTree), OldGixCommit),
                  Hash(OldGixCommit),
                  LogMessage("commit", "Initial commit", 0)).dir

----------------------------------------------------------------------------
\* The program: main, load_key, decrypt, with_git2, with_gix.

Configs == {"unset", "main", "master"}

NoLocals ==
    /\ author' = OldAuthor
    /\ content' = <<>>
    /\ sig' = <<>>
    /\ commit' = NoCommit
    /\ commit_id' = NoId

Init ==
    /\ home \in BOOLEAN
    /\ files \in [{KeyFileNames[i] : i \in 1..Len(KeyFileNames)} -> FileStates]
    /\ cfg \in Configs
    /\ start \in [git2 : {NoDir, OldGit2Dir(cfg)}, gix : {NoDir, OldGixDir(cfg)}]
    /\ git2 = start.git2
    /\ gix = start.gix
    /\ pc = "load_key"
    /\ err = "none"
    /\ key = NoKey
    /\ password = ""
    /\ tried = <<>>
    /\ author = OldAuthor
    /\ content = <<>>
    /\ sig = <<>>
    /\ commit = NoCommit
    /\ commit_id = NoId
    /\ out = <<>>
    /\ errout = <<>>
    /\ calls = [git2 |-> <<>>, gix |-> <<>>]

env == <<home, files, cfg, start, calls>>
keyvars == <<key, password, tried, errout>>
locals == <<author, content, sig, commit, commit_id>>

\* `?` on an Err: main returns it and the process ends.
Fail(e) == pc' = "failed" /\ err' = e

\* load_key, lines 128-146.
LoadKey ==
    /\ pc = "load_key"
    /\ LET r == LoadKeyResult(home, files) IN
       \/ /\ r.err # "none"
          /\ Fail(r.err)
          /\ UNCHANGED key
       \/ /\ r.err = "none"
          /\ r.key.encrypted
          /\ key' = r.key
          /\ pc' = "prompt"
          /\ UNCHANGED err
       \/ /\ r.err = "none"
          /\ ~r.key.encrypted
          /\ key' = r.key
          /\ pc' = "git2_dir"
          /\ UNCHANGED err
    /\ UNCHANGED <<env, password, tried, errout, git2, gix, locals, out>>

\* The prompt's Err noted, the run going on as if a key had been returned.
CancelIgnored == pc' = "git2_dir" /\ err' = "Cancelled"

\* decrypt, line 159: `?` on the prompt's Err (the user interrupted it).
Cancel == Fail("Cancelled")

\* decrypt, lines 156-159: the prompt returns a password, or the user
\* interrupts it and `?` returns the error.
Prompt ==
    /\ pc = "prompt"
    /\ \/ /\ Len(tried) < MaxAttempts
          /\ \E pw \in Passwords : password' = pw
          /\ pc' = "attempt"
          /\ UNCHANGED err
       \/ /\ Cancel
          /\ UNCHANGED password
    /\ UNCHANGED <<env, key, tried, errout, git2, gix, locals, out>>

\* decrypt, lines 161-167.
Attempt ==
    /\ pc = "attempt"
    /\ tried' = Append(tried, password)
    /\ LET r == Decrypt(key, password) IN
       \/ /\ r.ok
          /\ key' = r.key
          /\ pc' = "git2_dir"
          /\ UNCHANGED errout
       \/ /\ ~r.ok
          /\ errout' = Append(errout, "wrong password")
          /\ pc' = "prompt"
          /\ UNCHANGED key
    /\ UNCHANGED <<env, err, password, git2, gix, locals, out>>

\* with_git2, lines 23-25. The result of remove_dir_all is dropped (.ok()),
\* so the run goes on with whatever the removal left.
Git2PrepareDir ==
    /\ pc = "git2_dir"
    /\ \E left \in RemoveDirAll(git2) :
       \/ /\ git2' = CreateDirAll(left)
          /\ pc' = "git2_init"
          /\ UNCHANGED err
       \/ /\ git2' = left
          /\ Fail("IOError")
    /\ UNCHANGED <<env, keyvars, gix, locals, out>>

\* with_git2, line 27.
Git2Init ==
    /\ pc = "git2_init"
    /\ \/ /\ git2' = RepositoryInit(git2, cfg)
          /\ pc' = "git2_tree"
          /\ UNCHANGED err
       \/ /\ Fail("IOError")
          /\ UNCHANGED git2
    /\ UNCHANGED <<env, keyvars, gix, locals, out>>

\* with_git2, lines 29-31: the empty index written as a tree.
Git2WriteTree ==
    /\ pc = "git2_tree"
    /\ \/ /\ git2' = WriteObject(git2, EmptyTree)
          /\ pc' = "git2_author"
          /\ UNCHANGED err
       \/ /\ Fail("ObjectWriteFailed")
          /\ UNCHANGED git2
    /\ UNCHANGED <<env, keyvars, gix, locals, out>>

\* with_git2, line 33.
Git2Author ==
    /\ pc = "git2_author"
    /\ \E t \in Times : author' = Identity(Bob, t)
    /\ pc' = "git2_buffer"
    /\ UNCHANGED <<env, keyvars, err, git2, gix, content, sig, commit, commit_id, out>>

\* with_git2, lines 35-36.
Git2CommitCreateBuffer ==
    /\ pc = "git2_buffer"
    /\ \/ /\ content' = CommitCreateBuffer(author, author, "Initial commit",
                                           Hash(EmptyTree), <<>>)
          /\ pc' = "git2_sign"
          /\ UNCHANGED err
       \/ /\ Fail("EncodingError")
          /\ UNCHANGED content
    /\ UNCHANGED <<env, keyvars, git2, gix, author, sig, commit, commit_id, out>>

\* with_git2, lines 38-40.
Git2Sign ==
    /\ pc = "git2_sign"
    /\ \/ /\ CanSign(key)
          /\ sig' = ToPem(Sign(key, "git", "sha256", content))
          /\ pc' = "git2_commit"
          /\ UNCHANGED err
       \/ /\ Fail("SigningFailed")
          /\ UNCHANGED sig
    /\ UNCHANGED <<env, keyvars, git2, gix, author, content, commit, commit_id, out>>

\* The id computed, the object never written.
Git2CommitSignedNoWrite ==
    /\ pc = "git2_commit"
    /\ commit_id' = Hash(Git2SignedCommit(content, sig))
    /\ pc' = "git2_branch"
    /\ UNCHANGED <<env, keyvars, err, git2, gix, author, content, sig, commit, out>>

\* with_git2, lines 42-43.
Git2CommitSigned ==
    /\ pc = "git2_commit"
    /\ \/ /\ git2' = WriteObject(git2, Git2SignedCommit(content, sig))
          /\ commit_id' = Hash(Git2SignedCommit(content, sig))
          /\ pc' = "git2_branch"
          /\ UNCHANGED err
       \/ /\ Fail("ObjectWriteFailed")
          /\ UNCHANGED <<git2, commit_id>>
    /\ UNCHANGED <<env, keyvars, gix, author, content, sig, commit, out>>

\* with_git2, line 45.
Git2Branch ==
    /\ pc = "git2_branch"
    /\ LET r == Branch(git2, "main", commit_id, TRUE) IN
       \/ /\ r.ok
          /\ git2' = r.dir
          /\ pc' = "git2_ok"
          /\ UNCHANGED err
       \/ /\ ~r.ok
          /\ Fail("RefConflict")
          /\ UNCHANGED git2
       \/ /\ Fail("IOError")
          /\ UNCHANGED git2
    /\ UNCHANGED <<env, keyvars, gix, locals, out>>

\* with_git2 returns Ok (line 47); main prints (line 10).
Git2Print ==
    /\ pc = "git2_ok"
    /\ out' = Append(out, "created with GIT2 at: ./tmp-git2")
    /\ pc' = "gix_dir"
    /\ NoLocals
    /\ UNCHANGED <<env, keyvars, err, git2, gix>>

\* with_gix preparing ./tmp-git2, the directory of the other backend.
GixPrepareDirWrongDir ==
    /\ pc = "gix_dir"
    /\ \E left \in RemoveDirAll(git2) :
          /\ git2' = CreateDirAll(left)
          /\ pc' = "gix_init"
    /\ UNCHANGED <<env, keyvars, err, gix, locals, out>>

\* with_gix, lines 63-65. The result of remove_dir_all is dropped (.ok()),
\* so the run goes on with whatever the removal left.
GixPrepareDir ==
    /\ pc = "gix_dir"
    /\ \E left \in RemoveDirAll(gix) :
       \/ /\ gix' = CreateDirAll(left)
          /\ pc' = "gix_init"
          /\ UNCHANGED err
       \/ /\ gix' = left
          /\ Fail("IOError")
    /\ UNCHANGED <<env, keyvars, git2, locals, out>>

\* with_gix, line 67.
GixInitRepo ==
    /\ pc = "gix_init"
    /\ LET r == GixInit(gix, cfg) IN
       \/ /\ r.ok
          /\ gix' = r.dir
          /\ pc' = "gix_tree"
          /\ UNCHANGED err
       \/ /\ ~r.ok
          /\ Fail("DirectoryExists")
          /\ UNCHANGED gix
       \/ /\ Fail("IOError")
          /\ UNCHANGED gix
    /\ UNCHANGED <<env, keyvars, git2, locals, out>>

\* with_gix, lines 68-69.
GixWriteTree ==
    /\ pc = "gix_tree"
    /\ \/ /\ gix' = WriteObject(gix, EmptyTree)
          /\ pc' = "gix_commit"
          /\ UNCHANGED err
       \/ /\ Fail("ObjectWriteFailed")
          /\ UNCHANGED gix
    /\ UNCHANGED <<env, keyvars, git2, locals, out>>

\* with_gix, lines 73-87: the author, taken once, and the unsigned commit.
GixCommit ==
    /\ pc = "gix_commit"
    /\ \E t \in Times :
          /\ author' = Identity(Bob, t)
          /\ commit' = Draft(Identity(Bob, t), Hash(EmptyTree))
    /\ pc' = "gix_sign"
    /\ UNCHANGED <<env, keyvars, err, git2, gix, content, sig, commit_id, out>>

\* with_gix, lines 89-95.
GixSign ==
    /\ pc = "gix_sign"
    /\ \/ /\ CanSign(key)
          /\ content' = GixPayload(commit)
          /\ sig' = ToPem(Sign(key, "git", "sha256", GixPayload(commit)))
          /\ pc' = "gix_push"
          /\ UNCHANGED err
       \/ /\ Fail("SigningFailed")
          /\ UNCHANGED <<content, sig>>
    /\ UNCHANGED <<env, keyvars, git2, gix, author, commit, commit_id, out>>

\* with_gix, lines 97-99.
GixPushSignature ==
    /\ pc = "gix_push"
    /\ commit' = PushSignature(commit, Trim(sig))
    /\ pc' = "gix_write"
    /\ UNCHANGED <<env, keyvars, err, git2, gix, author, content, sig, commit_id, out>>

\* with_gix, line 101.
GixWriteObject ==
    /\ pc = "gix_write"
    /\ \/ /\ gix' = WriteObject(gix, GixSignedCommit(commit))
          /\ commit_id' = Hash(GixSignedCommit(commit))
          /\ pc' = "gix_edit"
          /\ UNCHANGED err
       \/ /\ Fail("ObjectWriteFailed")
          /\ UNCHANGED <<gix, commit_id>>
    /\ UNCHANGED <<env, keyvars, git2, author, content, sig, commit, out>>

\* with_gix, lines 103-115.
GixEditReference ==
    /\ pc = "gix_edit"
    /\ LET r == EditReference(gix, commit_id,
                    LogMessage("commit", commit.message, Len(commit.parents)))
       IN
       \/ /\ r.ok
          /\ gix' = r.dir
          /\ pc' = "gix_ok"
          /\ UNCHANGED err
       \/ /\ ~r.ok
          /\ Fail("RefConflict")
          /\ UNCHANGED gix
       \/ /\ Fail("IOError")
          /\ UNCHANGED gix
    /\ UNCHANGED <<env, keyvars, git2, locals, out>>

\* with_gix returns Ok (line 117); main prints and returns Ok (lines 13-15).
GixPrint ==
    /\ pc = "gix_ok"
    /\ out' = Append(out, "created with GIX at: ./tmp-gix")
    /\ pc' = "done"
    /\ NoLocals
    /\ UNCHANGED <<env, keyvars, err, git2, gix>>

Next ==
    \/ LoadKey
    \/ Prompt
    \/ Attempt
    \/ Git2PrepareDir
    \/ Git2Init
    \/ Git2WriteTree
    \/ Git2Author
    \/ Git2CommitCreateBuffer
    \/ Git2Sign
    \/ Git2CommitSigned
    \/ Git2Branch
    \/ Git2Print
    \/ GixPrepareDir
    \/ GixInitRepo
    \/ GixWriteTree
    \/ GixCommit
    \/ GixSign
    \/ GixPushSignature
    \/ GixWriteObject
    \/ GixEditReference
    \/ GixPrint

Spec == Init /\ [][Next]_vars

----------------------------------------------------------------------------
\* The reference operations of the two backends called repeatedly on one
\* repository: lines 42-45 of with_git2 and lines 101-115 of with_gix, each
\* call with the signed commit of some key and some time.

InitCalls ==
    /\ home = TRUE
    /\ files = [n \in {KeyFileNames[i] : i \in 1..Len(KeyFileNames)} |-> "plain"]
    /\ cfg \in Configs
    /\ git2 = WriteObject(RepositoryInit(CreateDirAll(NoDir), cfg), EmptyTree)
    /\ gix = WriteObject(GixInit(CreateDirAll(NoDir), cfg).dir, EmptyTree)
    /\ start = [git2 |-> git2, gix |-> gix]
    /\ pc = "calls"
    /\ err = "none"
    /\ key = NoKey
    /\ password = ""
    /\ tried = <<>>
    /\ author = OldAuthor
    /\ content = <<>>
    /\ sig = <<>>
    /\ commit = NoCommit
    /\ commit_id = NoId
    /\ out = <<>>
    /\ errout = <<>>
    /\ calls = [git2 |-> <<>>, gix |-> <<>>]

Git2BranchCall ==
    /\ pc = "calls"
    /\ Len(calls.git2) < MaxCalls
    /\ \E k \in Keys, t \in Times :
          LET obj == Git2CommitOf(k, t)
              r == Branch(WriteObject(git2, obj), "main", Hash(obj), TRUE)
          IN /\ git2' = r.dir
             /\ calls' = [calls EXCEPT
                             !.git2 = Append(@, [err |-> IF r.ok THEN "none" ELSE "RefConflict",
                                                 new |-> Hash(obj)])]
    /\ UNCHANGED <<home, files, cfg, start, pc, err, keyvars, gix, locals, out>>

GixEditCall ==
    /\ pc = "calls"
    /\ Len(calls.gix) < MaxCalls
    /\ \E k \in Keys, t \in Times :
          LET obj == GixCommitOf(k, t)
              r == EditReference(WriteObject(gix, obj), Hash(obj),
                                 LogMessage("commit", "Initial commit", 0))
          IN /\ gix' = r.dir
             /\ calls' = [calls EXCEPT
                             !.gix = Append(@, [err |-> IF r.ok THEN "none" ELSE "RefConflict",
                                                new |-> Hash(obj)])]
    /\ UNCHANGED <<home, files, cfg, start, pc, err, keyvars, git2, locals, out>>

NextCalls ==
    \/ Git2BranchCall
    \/ GixEditCall

SpecCalls == InitCalls /\ [][NextCalls]_vars

----------------------------------------------------------------------------
\* Properties of the repeated reference operations (SpecCalls).

C8_BothCallsSucceed ==
    LET c == calls.git2 IN
    Len(c) = 2 =>
        /\ c[1].err = "none"
        /\ c[2].err = "none"
        /\ git2.refs["main"] = c[2].new

\* C8, amended: the first call succeeds; when HEAD names a branch other than
\* "main" every later call succeeds too and the branch points at the commit
\* of the last call; when HEAD names "main" every later call fails and the
\* branch keeps pointing at the commit of the first call.
C8_OverwriteUnlessHead ==
    LET c == calls.git2 IN
    /\ Len(c) = 0 => git2.refs["main"] = NoId
    /\ Len(c) >= 1 => c[1].err = "none"
    /\ (Len(c) >= 1 /\ git2.head # "main") =>
          /\ \A i \in 1..Len(c) : c[i].err = "none"
          /\ git2.refs["main"] = c[Len(c)].new
    /\ (Len(c) >= 1 /\ git2.head = "main") =>
          /\ \A i \in 2..Len(c) : c[i].err = "RefConflict"
          /\ git2.refs["main"] = c[1].new

C8_Witness ==
    /\ Len(calls.git2) = 2
    /\ git2.head = "master"
    /\ calls.git2[1].err = "none"
    /\ calls.git2[2].err = "none"
    /\ calls.git2[2].new # calls.git2[1].new
    /\ git2.refs["main"] = calls.git2[2].new

----------------------------------------------------------------------------
\* Properties of the program (Spec).

KeySteps == {"load_key", "prompt", "attempt"}

Git2Steps == {"git2_dir", "git2_init", "git2_tree", "git2_author", "git2_buffer",
              "git2_sign", "git2_commit", "git2_branch", "git2_ok"}

GixSteps == {"gix_dir", "gix_init", "gix_tree", "gix_commit", "gix_sign",
             "gix_push", "gix_write", "gix_edit", "gix_ok"}

Git2Line == "created with GIT2 at: ./tmp-git2"

GixLine == "created with GIX at: ./tmp-gix"

\* The least element of a non-empty set of numbers.
Earliest(S) == CHOOSE i \in S : \A j \in S : i <= j

\* C2 as stated: after a complete run of with_gix on a directory that held a
\* repository whose HEAD pointed at a commit, HEAD still resolves to that
\* commit and the commit is still in the object store.
C2_HistoryKept ==
    (pc \in {"gix_ok", "done"} /\ start.gix = OldGixDir(cfg)) =>
        /\ HeadTarget(gix) = Hash(OldGixCommit)
        /\ OldGixCommit \in gix.objects

\* C2, amended: with_gix writes only into a repository it has initialised
\* itself, in which no reference exists before the HEAD edit, so the edit
\* overwrites nothing; whatever the directory held before is deleted by the
\* directory preparation, and after a complete run the repository holds the
\* empty tree and the commit of this run only, HEAD's branch pointing at it.
C2_FreshRepositoryOnly ==
    /\ pc \in GixSteps \ {"gix_dir", "gix_init", "gix_ok"} =>
          /\ gix.refs = NoRefs
          /\ gix.reflog = <<>>
          /\ gix.objects \subseteq {EmptyTree, GixSignedCommit(commit)}
    /\ pc \in {"gix_ok", "done"} =>
          \E c \in gix.objects :
              /\ c.kind = "commit"
              /\ gix.objects = {EmptyTree, c}
              /\ gix.refs = [NoRefs EXCEPT ![gix.head] = Hash(c)]
              /\ Len(gix.reflog) = 1

C2_Witness ==
    /\ pc = "done"
    /\ start.gix = OldGixDir(cfg)
    /\ HeadTarget(gix) # Hash(OldGixCommit)
    /\ OldGixCommit \notin gix.objects

AllWrong(s, n) == \A i \in 1..n : s[i] = "wrong"

C3_Inv ==
    /\ pc \in {"prompt", "attempt"} =>
          /\ key.encrypted
          /\ AllWrong(tried, Len(tried))
          /\ Len(errout) = Len(tried)
    /\ (tried # <<>> /\ ~key.encrypted) =>
          /\ tried[Len(tried)] = "correct"
          /\ AllWrong(tried, Len(tried) - 1)
          /\ err # "Cancelled"
    /\ err = "Cancelled" =>
          /\ key.encrypted
          /\ AllWrong(tried, Len(tried))
    /\ sig # <<>> => CanSign(key)

C3_Act ==
    /\ (pc = "attempt" /\ password = "wrong") =>
          /\ pc' = "prompt"
          /\ key' = key
          /\ err' = "none"
    /\ (pc = "attempt" /\ password = "correct") =>
          /\ pc' = "git2_dir"
          /\ key' = [key EXCEPT !.encrypted = FALSE]
          /\ Len(tried') = Len(errout) + 1
    /\ (pc = "prompt" /\ err' = "Cancelled") => (pc' = "failed" /\ key' = key)

\* C3: in the decryption loop every wrong password leads back to the prompt
\* with the same key, still encrypted; the first correct password, coming
\* after n wrong ones, decrypts the key on attempt n + 1, and the key then
\* signs; a prompt that is cancelled ends the run with Cancelled, the key
\* never decrypted.
C3_RetryLoop == []C3_Inv /\ [][C3_Act]_vars

C3_Witness ==
    /\ tried = <<"wrong", "wrong", "correct">>
    /\ pc = "git2_commit"
    /\ sig = ToPem(Sign(key, "git", "sha256", content))

\* A commit object that carries a signature over its own unsigned encoding.
SignedCommit(o) ==
    /\ o.kind = "commit"
    /\ LET c == Decode(o.data) IN
       /\ HeaderNamed(c.extra_headers, "gpgsig") # <<>>
       /\ \E k \in Keys : Verifies(EmbeddedSig(c), k, WriteTo(StripSig(c)))

\* Every reference of directory d that this run has set (it is not what the
\* directory d0 of the process start held) points at a signed commit of d's
\* store.
RefsSound(d, d0) ==
    \A r \in RefNames :
        d.refs[r] \notin {NoId, d0.refs[r]} =>
            \E o \in d.objects : Hash(o) = d.refs[r] /\ SignedCommit(o)

C4_Inv ==
    /\ RefsSound(git2, start.git2)
    /\ RefsSound(gix, start.gix)
    /\ (err # "none") <=> (pc = "failed")

C4_Act ==
    /\ pc # "failed"
    /\ pc = "attempt" => err' = "none"
    /\ (\E r \in RefNames : git2'.refs[r] # git2.refs[r] /\ git2'.refs[r] # NoId) =>
          /\ pc = "git2_branch"
          /\ sig = ToPem(Sign(key, "git", "sha256", content))
          /\ git2'.refs = [git2.refs EXCEPT !["main"] = commit_id]
          /\ \E o \in git2.objects : Hash(o) = commit_id
    /\ (\E r \in RefNames : gix'.refs[r] # gix.refs[r] /\ gix'.refs[r] # NoId) =>
          /\ pc = "gix_edit"
          /\ sig = ToPem(Sign(key, "git", "sha256", content))
          /\ gix'.refs = [gix.refs EXCEPT ![gix.head] = commit_id]
          /\ \E o \in gix.objects : Hash(o) = commit_id

C5_CancelLeavesNothing ==
    (err = "Cancelled" \/ pc \in KeySteps) =>
        /\ git2 = start.git2
        /\ gix = start.gix
        /\ commit_id = NoId
        /\ out = <<>>

C5_Witness ==
    /\ err = "Cancelled"
    /\ tried = <<"wrong">>
    /\ start.git2 = OldGit2Dir(cfg)
    /\ start.gix = OldGixDir(cfg)

LoadErrors == {"HomeDirNotFound", "KeyNotFound", "KeyParseError"}

Indexes(states) ==
    {i \in 1..Len(KeyFileNames) : files[KeyFileNames[i]] \in states}

\* C6 as stated: with a home directory, load_key returns the key of the
\* earliest file of the list that exists and parses, and fails with
\* KeyNotFound or KeyParseError only when no file exists and parses.
C6_FirstParseableKey ==
    (pc # "load_key" /\ home) =>
        LET P == Indexes({"plain", "encrypted"}) IN
        IF P = {}
        THEN err \in {"KeyNotFound", "KeyParseError"}
        ELSE /\ key.alg = AlgOf(KeyFileNames[Earliest(P)])
             /\ err \notin {"KeyNotFound", "KeyParseError"}

\* C6, amended: load_key takes the earliest file of the list that can be
\* read, whatever it holds. It returns that file's key when the file parses,
\* fails with KeyParseError when it does not (later files are not tried),
\* fails with KeyNotFound when no file can be read, and fails before looking
\* at any file when there is no home directory.
C6_FirstReadableKey ==
    pc # "load_key" =>
        LET R == Indexes(FileStates \ {"absent"}) IN
        IF ~home THEN err = "HomeDirNotFound" /\ key = NoKey
        ELSE IF R = {} THEN err = "KeyNotFound" /\ key = NoKey
        ELSE IF files[KeyFileNames[Earliest(R)]] = "garbage"
        THEN err = "KeyParseError" /\ key = NoKey
        ELSE /\ key.alg = AlgOf(KeyFileNames[Earliest(R)])
             /\ err \notin LoadErrors
             /\ (files[KeyFileNames[Earliest(R)]] = "encrypted") =
                    (key.encrypted \/ tried # <<>>)

C6_Witness ==
    /\ pc = "failed"
    /\ home
    /\ files["id_ed25519"] = "garbage"
    /\ files["id_ecdsa"] = "plain"
    /\ err = "KeyParseError"

\* The commit with id commit_id in directory d removes to the bytes that
\* were signed, equals the unsigned commit in every other field, and carries
\* one signature, which verifies over the signed bytes and not over the
\* stored bytes.
SelfConsistent(d) ==
    \E o \in d.objects :
        /\ Hash(o) = commit_id
        /\ o.kind = "commit"
        /\ LET c == Decode(o.data) IN
           /\ WriteTo(StripSig(c)) = content
           /\ StripSig(c) = Draft(author, Hash(EmptyTree))
           /\ Len(HeaderNamed(c.extra_headers, "gpgsig")) = 1
           /\ Verifies(EmbeddedSig(c), key, content)
           /\ ~Verifies(EmbeddedSig(c), key, o.data)

\* C7: for the signed commit either backend has stored, dropping the gpgsig
\* header and encoding again gives the bytes that were handed to the signer,
\* every other field is that of the unsigned commit, and the signature is
\* over those bytes, not over the stored ones.
C7_SignedOverPayload ==
    /\ pc \in {"git2_branch", "git2_ok"} => SelfConsistent(git2)
    /\ pc \in {"gix_edit", "gix_ok"} => SelfConsistent(gix)

C7_Witness ==
    /\ pc = "gix_ok"
    /\ key.alg = "rsa"
    /\ author.time = "t1"
    /\ SelfConsistent(gix)
    /\ \E o \in git2.objects : o.kind = "commit" /\ SignedCommit(o)

\* C9: no object store ever holds a commit made of the unsigned bytes: every
\* commit object carries a gpgsig header, the bytes handed to the signer are
\* not an object of either store, and the id a backend binds to its
\* reference is the hash of the signed commit of those bytes, which is not
\* the hash of the unsigned bytes.
C9_OnlySignedStored ==
    /\ \A o \in git2.objects \cup gix.objects :
          o.kind = "commit" =>
              HeaderNamed(Decode(o.data).extra_headers, "gpgsig") # <<>>
    /\ content # <<>> =>
          CommitObject(content) \notin git2.objects \cup gix.objects
    /\ pc \in {"git2_branch", "git2_ok", "gix_edit", "gix_ok"} =>
          commit_id # Hash(CommitObject(content))
    /\ pc = "git2_ok" =>
          /\ git2.refs["main"] = commit_id
          /\ \E o \in git2.objects :
                /\ Hash(o) = commit_id
                /\ WriteTo(StripSig(Decode(o.data))) = content
    /\ pc = "gix_ok" =>
          /\ HeadTarget(gix) = commit_id
          /\ \E o \in gix.objects :
                /\ Hash(o) = commit_id
                /\ WriteTo(StripSig(Decode(o.data))) = content

C9_Witness ==
    /\ pc = "git2_ok"
    /\ content # <<>>
    /\ git2.refs["main"] = commit_id
    /\ commit_id # Hash(CommitObject(content))
    /\ Cardinality(git2.objects) = 2

C10_Inv ==
    /\ pc \in KeySteps =>
          git2 = start.git2 /\ gix = start.gix /\ out = <<>>
    /\ pc \in Git2Steps =>
          CanSign(key) /\ gix = start.gix /\ out = <<>>
    /\ pc \in GixSteps =>
          CanSign(key) /\ out = <<Git2Line>> /\ git2.refs["main"] # NoId
    /\ pc = "done" =>
          out = <<Git2Line, GixLine>> /\ HeadTarget(gix) # NoId
    /\ gix # start.gix => (Len(out) >= 1 /\ git2.refs["main"] # NoId)
    /\ Len(out) >= 1 => (out[1] = Git2Line /\ git2.refs["main"] # NoId)
    /\ Len(out) >= 2 => pc = "done"

C10_Act ==
    /\ git2' # git2 => (pc \in Git2Steps /\ gix' = gix)
    /\ gix' # gix => (pc \in GixSteps /\ git2' = git2)
    /\ out' # out => pc \in {"git2_ok", "gix_ok"}
    /\ key' # key => pc \in KeySteps

\* C10: the key is loaded and unlocked first, then with_git2 runs, then
\* with_gix: ./tmp-gix is untouched until with_git2 has returned Ok, a step
\* of one backend leaves the directory of the other alone, and a backend's
\* line is printed only after that backend has set its reference.
C10_Sequential == []C10_Inv /\ [][C10_Act]_vars

C10_Witness ==
    /\ pc = "done"
    /\ out = <<Git2Line, GixLine>>
    /\ start.gix = OldGixDir(cfg)
    /\ tried = <<"wrong", "correct">>

====
